---- MODULE Spec2Model ----
(***************************************************************************)
(* Event reconciliation of the Follo-ai backend (api/src/events): the      *)
(* /events/sync, /events/auto-sync and /events/upcoming request handlers,  *)
(* each running in its own database session against one events table.     *)
(* A handler is split at its awaits on the database, so that the           *)
(* statements of concurrent requests interleave; the table follows         *)
(* read-committed isolation: a statement sees the committed rows, a        *)
(* DELETE locks the rows it removes until its transaction ends, and a      *)
(* transaction's changes reach the table at commit, all at once.           *)
(***************************************************************************)
EXTENDS Integers, Sequences, FiniteSets, TLC

\* Bounds of the model.
MaxTime == 1      \* the clock and every timestamp range over 0..MaxTime
MaxBatch == 2     \* longest sync batch
MaxId == 2        \* number of event identities in use at one time
MaxCalendar == 2  \* longest calendar_events of a context snapshot
MaxUsers == 2     \* number of rows the users table holds at most

Users == {1, 2}
Sessions == {1, 2}
SourceIds == {"x"}
Titles == {"A"}
States == {"pending"}
Times == 0..MaxTime

\* days: int = 5 of GET /events/upcoming, in the unit of the clock.
DefaultDays == 5
\* datetime.max in the unit of the clock: a datetime beyond it raises
\* OverflowError.
DateTimeMax == 9

\* The values of days in GET /events/upcoming, and the query parameter
\* itself, which a request may leave out.
Windows == {0, 1, DateTimeMax}
QueryDays ==
    {[some |-> FALSE, val |-> 0]} \cup {[some |-> TRUE, val |-> d] : d \in Windows}

(***************************************************************************)
(* Timestamps on the wire are strings.  A string is modelled by its form   *)
(* and the instant it denotes: "offset" is an ISO-8601 string with a       *)
(* numeric UTC offset, "Z" one with the Z suffix, "bad" is not ISO-8601.   *)
(* Clients write the even instants with an offset and the odd ones with Z. *)
(***************************************************************************)
IsoString(t) == [form |-> IF t % 2 = 1 THEN "Z" ELSE "offset", t |-> t]
BadString == [form |-> "bad", t |-> 0]
IsoStrings == {IsoString(t) : t \in Times} \cup {BadString}

\* str.replace("Z", "+00:00")
ReplaceZ(str) == IF str.form = "Z" THEN [str EXCEPT !.form = "offset"] ELSE str

\* datetime.fromisoformat: the instant, or ValueError.
FromIsoFormat(str) ==
    IF str.form = "offset" THEN [ok |-> TRUE, val |-> str.t]
    ELSE [ok |-> FALSE, val |-> 0]

\* datetime.isoformat() of a stored timestamp.
IsoFormat(t) == [form |-> "offset", t |-> t]

\* EventCreate: the fields of one element of a sync batch.
\* The batches are made of events that end when they start, and of events
\* with a malformed timestamp.
EventInputs ==
    {ev \in [source_event_id : SourceIds, title : Titles,
             start_at : IsoStrings, end_at : IsoStrings, state : States] :
        ev.start_at = BadString \/ ev.end_at = BadString \/ ev.start_at = ev.end_at}

\* EventCreate with any two timestamps, an end before the start included.
EventInputsAnyOrder ==
    [source_event_id : SourceIds, title : Titles,
     start_at : IsoStrings, end_at : IsoStrings, state : States]

VARIABLES
    db,        \* the committed rows of the events table
    now,       \* the clock (datetime.utcnow())
    pc,        \* where each session's request stands
    kind,      \* the request a session serves: "sync" or "auto_sync"
    user,      \* current_user.id of the request
    batchLen,  \* len(request.events)
    batch,     \* the elements of request.events inserted so far
    txDel,     \* identities deleted by the session's open transaction
    txIns,     \* rows inserted (flushed) by the session's open transaction
    targets,   \* rows a blocked DELETE has selected
    cnow,      \* the clock as read by delete_past_events
    resp,      \* the response of the request
    alone,     \* history: no other writer of the same user overlapped this request
    prior,     \* history: the user's committed events when the request began
    lastOp,    \* history: per user, the last request that committed
    seen,      \* the last read: the request and what it returned
    ctx,       \* the context engine's request: its input and its outcome
    decided,   \* history: an earlier invocation of the engine and its outcome
    updatedAt, \* the column updated_at of the row of each identity
    found,     \* the last call of an id-scoped repository method and its result
    userTable, \* the committed rows of the users table
    ureq       \* where each caller's request to the user service stands

vars == <<db, now, pc, kind, user, batchLen, batch, txDel, txIns,
          targets, cnow, resp, alone, prior, lastOp, seen, ctx, decided,
          updatedAt, found, userTable, ureq>>

\* The state of the context engine's requests.
engineVars == <<ctx, decided>>

\* The state outside the event store and its requests.
\* The id-scoped methods of the event repository and the column they touch.
lookupVars == <<updatedAt, found>>

\* The users table and the requests to the user service.
accountVars == <<userTable, ureq>>

elsewhere == <<engineVars, lookupVars, accountVars>>

Range(seq) == {seq[i] : i \in DOMAIN seq}
Ids(rows) == {e.id : e \in rows}

\* The committed events of one user.
Owned(u) == {e \in db : e.user_id = u}

\* What a service method returned to its route: a Python value, its type
\* and its value as a number (True is 1).
NoValue == [type |-> "none", val |-> 0]
PyInt(n) == [type |-> "int", val |-> n]
PyTrue == [type |-> "bool", val |-> 1]

NoResp ==
    [status |-> "none", success |-> FALSE, message |-> "", synced_count |-> 0,
     returned |-> NoValue]

\* EventSyncResponse / AutoSyncResponse of the except clause of the routes:
\* success=False, message=str(e), synced_count=0.
FailureResp(e) ==
    [status |-> "sent", success |-> FALSE, message |-> e, synced_count |-> 0,
     returned |-> NoValue]

\* EventSyncResponse of a sync that returned n.
SyncedResp(n) ==
    [status |-> "sent", success |-> TRUE, message |-> "synced", synced_count |-> n,
     returned |-> PyInt(n)]

\* AutoSyncResponse of an auto sync: auto_sync drops deleted_count (the
\* rowcount of delete_past_events) after logging it and returns True, and
\* the route answers success=True with its message.
AutoSyncResp(deleted_count) ==
    [status |-> "sent", success |-> TRUE, message |-> "completed", synced_count |-> 0,
     returned |-> PyTrue]

\* No response: the handler was cancelled.
CancelledResp ==
    [status |-> "cancelled", success |-> FALSE, message |-> "", synced_count |-> 0,
     returned |-> NoValue]

\* The handler of the session's request has not returned.
InProgress(s) == pc[s] \in {"delete_wait", "sync_create", "cleanup_commit"}

(***************************************************************************)
(* The store: one transaction per session.                                 *)
(***************************************************************************)

\* A row is locked for s when another open transaction has deleted it.
Locked(s, ids) == \E t \in Sessions \ {s} : txDel[t] \cap ids # {}

\* The table after session s commits.
Committed(s) == {e \in db : e.id \notin txDel[s]} \cup Range(txIns[s])

\* EventRepository.create: the two timestamps, parsed.
ParseTimes(ev) ==
    [start_at |-> FromIsoFormat(ReplaceZ(ev.start_at)),
     end_at |-> FromIsoFormat(ReplaceZ(ev.end_at))]

\* A create that updates in place: a row of the user with the same
\* source_event_id keeps its start_at.
NewEvent_Merge(id, uid, ev) ==
    [id |-> id, user_id |-> uid, source_event_id |-> ev.source_event_id,
     title |-> ev.title,
     start_at |-> IF \E e \in db : e.user_id = uid /\ e.source_event_id = ev.source_event_id
                  THEN (CHOOSE e \in db : e.user_id = uid
                            /\ e.source_event_id = ev.source_event_id).start_at
                  ELSE ParseTimes(ev).start_at.val,
     end_at |-> ParseTimes(ev).end_at.val, state |-> ev.state]

\* EventRepository.create: the Event built from user_id and event_data.
NewEvent(id, uid, ev) ==
    [id |-> id, user_id |-> uid, source_event_id |-> ev.source_event_id,
     title |-> ev.title, start_at |-> ParseTimes(ev).start_at.val,
     end_at |-> ParseTimes(ev).end_at.val, state |-> ev.state]

\* Event.id defaults to a fresh uuid4: an identity no row in the table, in an
\* open transaction or in a history variable carries.
UsedIds ==
    Ids(db) \cup UNION {Ids(Range(txIns[s])) \cup txDel[s] \cup targets[s]
                          \cup Ids(prior[s]) : s \in Sessions}
FreeIds == (1..MaxId) \ UsedIds
FreshId == CHOOSE i \in FreeIds : \A j \in FreeIds : i <= j

\* A delete_user_events whose WHERE clause matches no row.
DeleteUserEventsWhere_None(e, uid) == FALSE

\* A delete_user_events without its WHERE clause.
DeleteUserEventsWhere_AllUsers(e, uid) == TRUE

\* The WHERE clause of delete_user_events.
DeleteUserEventsWhere(e, uid) == e.user_id = uid

\* A delete_past_events that compares end_at <= now.
DeletePastEventsWhere_Inclusive(e, uid, t) == e.user_id = uid /\ e.end_at <= t

\* The WHERE clause of delete_past_events.
DeletePastEventsWhere(e, uid, t) == e.user_id = uid /\ e.end_at < t

\* The WHERE clause of get_user_events.
UserEventsWhere(e, uid) == e.user_id = uid

\* A get_upcoming_events whose window leaves its end out.
UpcomingWhere_Exclusive(e, uid, t, days) ==
    e.user_id = uid /\ e.start_at >= t /\ e.start_at < t + days

\* The WHERE clause of get_upcoming_events: future = now + timedelta(days).
UpcomingWhere(e, uid, t, days) ==
    e.user_id = uid /\ e.start_at >= t /\ e.start_at <= t + days

\* A SELECT without its ORDER BY: the rows in any order.
OrderByStartAt_Unordered(rows) ==
    {q \in [1..Cardinality(rows) -> rows] :
        \A i, j \in DOMAIN q : i # j => q[i] # q[j]}

\* ORDER BY start_at: every order of the rows that is ascending in start_at
\* (the order of rows with equal start_at is the database's choice).
OrderByStartAt(rows) ==
    {q \in [1..Cardinality(rows) -> rows] :
        /\ \A i, j \in DOMAIN q : i # j => q[i] # q[j]
        /\ \A i, j \in DOMAIN q : i < j => q[i].start_at <= q[j].start_at}

\* EventService._to_response
ToResponse(e) ==
    [e EXCEPT !.start_at = IsoFormat(e.start_at), !.end_at = IsoFormat(e.end_at)]

(***************************************************************************)
(* History variables.  alone and prior are set when a request that writes  *)
(* begins and kept, with batch, until its session is closed.  lastOp[u] is *)
(* the last request that committed for user u: a sync and its batch, or a  *)
(* cleanup and the clock it read, and in `before` the request that         *)
(* committed for u before that one.                                        *)
(***************************************************************************)
NoOpBefore == [op |-> "none", batch |-> <<>>, now |-> 0]
NoOp == [op |-> "none", batch |-> <<>>, now |-> 0, before |-> NoOpBefore]

Before(o) == [op |-> o.op, batch |-> o.batch, now |-> o.now]

SyncOp(s) ==
    [op |-> "sync", batch |-> batch[s], now |-> 0,
     before |-> Before(lastOp[user[s]])]

CleanupOp(s) ==
    [op |-> "cleanup", batch |-> <<>>, now |-> cnow[s],
     before |-> Before(lastOp[user[s]])]

BeginWrite(s, u) ==
    /\ alone' = [t \in Sessions |->
                    IF t = s THEN ~ \E o \in Sessions \ {s} : InProgress(o) /\ user[o] = u
                    ELSE IF InProgress(t) /\ user[t] = u THEN FALSE
                    ELSE alone[t]]
    /\ prior' = [prior EXCEPT ![s] = Owned(u)]

\* The handler returns or raises: r is what the caller gets.
Respond(s, r) ==
    /\ pc' = [pc EXCEPT ![s] = "done"]
    /\ resp' = [resp EXCEPT ![s] = r]
    /\ targets' = [targets EXCEPT ![s] = {}]
    /\ batchLen' = [batchLen EXCEPT ![s] = 0]
    /\ UNCHANGED <<cnow, alone, prior, batch>>

\* get_session closes the session of a request that ends without a commit:
\* what the transaction did is rolled back and its locks are released.
Rollback(s) ==
    /\ txDel' = [txDel EXCEPT ![s] = {}]
    /\ txIns' = [txIns EXCEPT ![s] = <<>>]

(***************************************************************************)
(* A DELETE statement of session s that selects the rows `ids`: it removes *)
(* them in the session's transaction, or waits when one of them is locked. *)
(* Its rowcount is the number of rows in txDel.                            *)
(***************************************************************************)
ExecDelete(s, ids, after) ==
    IF Locked(s, ids)
    THEN /\ targets' = [targets EXCEPT ![s] = ids]
         /\ pc' = [pc EXCEPT ![s] = "delete_wait"]
         /\ UNCHANGED txDel
    ELSE /\ txDel' = [txDel EXCEPT ![s] = ids]
         /\ pc' = [pc EXCEPT ![s] = after]
         /\ UNCHANGED targets

\* A DELETE that, having waited, removes nothing.
DeleteResume_Nothing(s) ==
    /\ pc[s] = "delete_wait"
    /\ ~ Locked(s, targets[s])
    /\ txDel' = [txDel EXCEPT ![s] = {}]
    /\ targets' = [targets EXCEPT ![s] = {}]
    /\ pc' = [pc EXCEPT ![s] = IF kind[s] = "sync" THEN "sync_create" ELSE "cleanup_commit"]
    /\ UNCHANGED <<db, now, kind, user, batchLen, batch, txIns, cnow,
                   resp, alone, prior>>

\* The blocking transaction has ended: the DELETE removes the rows it
\* selected that still exist.
DeleteResume(s) ==
    /\ pc[s] = "delete_wait"
    /\ ~ Locked(s, targets[s])
    /\ txDel' = [txDel EXCEPT ![s] = targets[s] \cap Ids(db)]
    /\ targets' = [targets EXCEPT ![s] = {}]
    /\ pc' = [pc EXCEPT ![s] = IF kind[s] = "sync" THEN "sync_create" ELSE "cleanup_commit"]
    /\ UNCHANGED <<db, now, kind, user, batchLen, batch, txIns, cnow,
                   resp, alone, prior>>

(***************************************************************************)
(* POST /events/sync                                                       *)
(***************************************************************************)

\* A delete_user_events that commits on its own, ahead of the inserts.
SyncDelete_Autocommit(s, u, n) ==
    /\ pc[s] = "idle"
    /\ kind' = [kind EXCEPT ![s] = "sync"]
    /\ user' = [user EXCEPT ![s] = u]
    /\ batchLen' = [batchLen EXCEPT ![s] = n]
    /\ BeginWrite(s, u)
    /\ db' = {r \in db : ~ DeleteUserEventsWhere(r, u)}
    /\ pc' = [pc EXCEPT ![s] = "sync_create"]
    /\ UNCHANGED <<now, batch, txIns, txDel, targets, cnow, resp>>

\* The request arrives and sync_events runs delete_user_events.
SyncDelete(s, u, n) ==
    /\ pc[s] = "idle"
    /\ kind' = [kind EXCEPT ![s] = "sync"]
    /\ user' = [user EXCEPT ![s] = u]
    /\ batchLen' = [batchLen EXCEPT ![s] = n]
    /\ BeginWrite(s, u)
    /\ ExecDelete(s, {e.id : e \in {r \in db : DeleteUserEventsWhere(r, u)}}, "sync_create")
    /\ UNCHANGED <<db, now, batch, txIns, cnow, resp>>

\* A loop that skips an element whose timestamps do not parse.
SyncCreate_SkipBad(s, ev) ==
    /\ pc[s] = "sync_create"
    /\ Len(batch[s]) < batchLen[s]
    /\ FreeIds # {}
    /\ IF ParseTimes(ev).start_at.ok /\ ParseTimes(ev).end_at.ok
       THEN /\ txIns' = [txIns EXCEPT ![s] = Append(@, NewEvent(FreshId, user[s], ev))]
            /\ batch' = [batch EXCEPT ![s] = Append(@, ev)]
            /\ UNCHANGED batchLen
       ELSE /\ batchLen' = [batchLen EXCEPT ![s] = @ - 1]
            /\ UNCHANGED <<txIns, batch>>
    /\ UNCHANGED <<db, now, kind, user, pc, resp, targets, cnow, alone, prior, txDel>>

\* A loop that commits after every create.
SyncCreate_CommitEach(s, ev) ==
    /\ pc[s] = "sync_create"
    /\ Len(batch[s]) < batchLen[s]
    /\ FreeIds # {}
    /\ IF ParseTimes(ev).start_at.ok /\ ParseTimes(ev).end_at.ok
       THEN /\ db' = Committed(s) \cup {NewEvent(FreshId, user[s], ev)}
            /\ txDel' = [txDel EXCEPT ![s] = {}]
            /\ batch' = [batch EXCEPT ![s] = Append(@, ev)]
            /\ UNCHANGED <<pc, resp, batchLen, targets, cnow, alone, prior, txIns>>
       ELSE /\ Respond(s, FailureResp("ValueError"))
            /\ Rollback(s)
            /\ UNCHANGED db
    /\ UNCHANGED <<now, kind, user>>

\* One turn of the loop over events: repository.create of the next element.
\* A timestamp that does not parse raises ValueError, which the route turns
\* into a failure response.
SyncCreate(s, ev) ==
    /\ pc[s] = "sync_create"
    /\ Len(batch[s]) < batchLen[s]
    /\ FreeIds # {}
    /\ IF ParseTimes(ev).start_at.ok /\ ParseTimes(ev).end_at.ok
       THEN /\ txIns' = [txIns EXCEPT ![s] = Append(@, NewEvent(FreshId, user[s], ev))]
            /\ batch' = [batch EXCEPT ![s] = Append(@, ev)]
            /\ UNCHANGED <<pc, resp, batchLen, targets, cnow, alone, prior, txDel>>
       ELSE /\ Respond(s, FailureResp("ValueError"))
            /\ Rollback(s)
    /\ UNCHANGED <<db, now, kind, user>>

\* A sync_events that returns early on an empty batch, before its commit.
SyncCommit_SkipEmpty(s) ==
    /\ pc[s] = "sync_create"
    /\ Len(batch[s]) = batchLen[s]
    /\ db' = IF batchLen[s] = 0 THEN db ELSE Committed(s)
    /\ txDel' = [txDel EXCEPT ![s] = {}]
    /\ txIns' = [txIns EXCEPT ![s] = <<>>]
    /\ Respond(s, SyncedResp(batchLen[s]))
    /\ UNCHANGED <<now, kind, user>>

\* session.commit() after the loop, and the success response.
SyncCommit(s) ==
    /\ pc[s] = "sync_create"
    /\ Len(batch[s]) = batchLen[s]
    /\ db' = Committed(s)
    /\ txDel' = [txDel EXCEPT ![s] = {}]
    /\ txIns' = [txIns EXCEPT ![s] = <<>>]
    /\ Respond(s, SyncedResp(batchLen[s]))
    /\ UNCHANGED <<now, kind, user>>

(***************************************************************************)
(* POST /events/auto-sync                                                  *)
(***************************************************************************)

\* The request arrives and auto_sync runs delete_past_events.
CleanupDelete(s, u) ==
    /\ pc[s] = "idle"
    /\ kind' = [kind EXCEPT ![s] = "auto_sync"]
    /\ user' = [user EXCEPT ![s] = u]
    /\ cnow' = [cnow EXCEPT ![s] = now]
    /\ BeginWrite(s, u)
    /\ ExecDelete(s, {e.id : e \in {r \in db : DeletePastEventsWhere(r, u, now)}},
                  "cleanup_commit")
    /\ UNCHANGED <<db, now, batchLen, batch, txIns, resp>>

\* An auto_sync that answers without its commit.
CleanupCommit_NoCommit(s) ==
    /\ pc[s] = "cleanup_commit"
    /\ db' = db
    /\ txDel' = [txDel EXCEPT ![s] = {}]
    /\ Respond(s, AutoSyncResp(Cardinality(txDel[s])))
    /\ UNCHANGED <<now, kind, user, txIns>>

\* session.commit(), return True, and the success response.
CleanupCommit(s) ==
    /\ pc[s] = "cleanup_commit"
    /\ db' = Committed(s)
    /\ txDel' = [txDel EXCEPT ![s] = {}]
    /\ Respond(s, AutoSyncResp(Cardinality(txDel[s])))
    /\ UNCHANGED <<now, kind, user, txIns>>

(***************************************************************************)
(* Failures of a request in progress.                                      *)
(***************************************************************************)
\* A handler that catches the error, rolls back and runs its statements
\* again instead of answering.
StorageError_Retry(s) ==
    /\ InProgress(s)
    /\ Rollback(s)
    /\ pc' = [pc EXCEPT ![s] = IF kind[s] = "sync" THEN "sync_create"
                                                   ELSE "cleanup_commit"]
    /\ batch' = [batch EXCEPT ![s] = <<>>]
    /\ targets' = [targets EXCEPT ![s] = {}]
    /\ UNCHANGED <<db, now, kind, user, batchLen, cnow, resp, alone, prior>>

\* A statement or the commit raises: the route's except clause answers
\* success=False (synced_count=0 for sync), and the session is closed
\* without a commit.
StorageError(s) ==
    /\ InProgress(s)
    /\ Respond(s, FailureResp("StorageError"))
    /\ Rollback(s)
    /\ UNCHANGED <<db, now, kind, user>>

\* The caller gives up: the handler is cancelled at its await, there is no
\* response, and the session is closed without a commit.
Cancel(s) ==
    /\ InProgress(s)
    /\ Respond(s, CancelledResp)
    /\ Rollback(s)
    /\ UNCHANGED <<db, now, kind, user>>

\* The caller has its answer and the session is free for another request.
SessionClose(s) ==
    /\ pc[s] = "done"
    /\ pc' = [pc EXCEPT ![s] = "idle"]
    /\ kind' = [kind EXCEPT ![s] = "none"]
    /\ user' = [user EXCEPT ![s] = 0]
    /\ resp' = [resp EXCEPT ![s] = NoResp]
    /\ cnow' = [cnow EXCEPT ![s] = 0]
    /\ alone' = [alone EXCEPT ![s] = TRUE]
    /\ prior' = [prior EXCEPT ![s] = {}]
    /\ batch' = [batch EXCEPT ![s] = <<>>]
    /\ UNCHANGED <<db, now, batchLen, txDel, txIns, targets>>

(***************************************************************************)
(* The id-scoped methods of EventRepository.  No service or route of the   *)
(* repository calls them: a call is a caller's, in a session of its own,    *)
(* and update_event_state flushes and leaves the commit to its caller.     *)
(***************************************************************************)
UpdateStates == {"pending", "done"}

\* Result.scalar_one_or_none(): the row, None, or MultipleResultsFound.
ScalarOneOrNone_First(rows) ==
    IF Cardinality(rows) = 1
    THEN [outcome |-> "one", val |-> CHOOSE e \in rows : TRUE]
    ELSE IF db # {} THEN [outcome |-> "one", val |-> CHOOSE e \in db : TRUE]
    ELSE [outcome |-> "none"]

ScalarOneOrNone(rows) ==
    IF rows = {} THEN [outcome |-> "none"]
    ELSE IF Cardinality(rows) = 1
    THEN [outcome |-> "one", val |-> CHOOSE e \in rows : TRUE]
    ELSE [outcome |-> "raised"]

\* The WHERE clauses of get_by_id and get_by_source_id.
GetByIdWhere(e, event_id) == e.id = event_id
GetBySourceIdWhere(e, uid, source_event_id) ==
    e.user_id = uid /\ e.source_event_id = source_event_id

NoFound ==
    [op |-> "none", id |-> 0, user |-> 0, source_event_id |-> "", state |-> "",
     result |-> [outcome |-> "none"]]

FrameLookup ==
    UNCHANGED <<db, now, pc, kind, user, batchLen, batch, txDel, txIns,
                targets, cnow, resp, alone, prior, updatedAt>>

\* EventRepository.get_by_id
GetById(event_id) ==
    /\ found' = [NoFound EXCEPT !.op = "get_by_id", !.id = event_id,
                   !.result = ScalarOneOrNone({e \in db : GetByIdWhere(e, event_id)})]
    /\ FrameLookup

\* EventRepository.get_by_source_id
GetBySourceId(uid, source_event_id) ==
    /\ found' = [NoFound EXCEPT !.op = "get_by_source_id", !.user = uid,
                   !.source_event_id = source_event_id,
                   !.result = ScalarOneOrNone({e \in db :
                                  GetBySourceIdWhere(e, uid, source_event_id)})]
    /\ FrameLookup

\* The event as update_event_state leaves it: event.state = state.
WithState_AndTitle(event, state) == [event EXCEPT !.state = state, !.title = state]

WithState(event, state) == [event EXCEPT !.state = state]

\* EventRepository.update_event_state: get_by_id, then the assignment and
\* the flush.  The flush writes a new version of the row when the state is
\* not the one the row has, and the UPDATE sets updated_at (onupdate).
UpdateEventState(s, event_id, state) ==
    /\ pc[s] = "idle"
    /\ LET r == ScalarOneOrNone({e \in db : GetByIdWhere(e, event_id)})
       IN /\ found' = [NoFound EXCEPT
                          !.op = "update_event_state", !.id = event_id,
                          !.state = state,
                          !.result = IF r.outcome = "one"
                                     THEN [r EXCEPT !.val = WithState(r.val, state)]
                                     ELSE r]
          /\ IF r.outcome = "one" /\ WithState(r.val, state) # r.val
             THEN /\ txDel' = [txDel EXCEPT ![s] = {event_id}]
                  /\ txIns' = [txIns EXCEPT ![s] = <<WithState(r.val, state)>>]
                  /\ cnow' = [cnow EXCEPT ![s] = now]
             ELSE UNCHANGED <<txDel, txIns, cnow>>
    /\ pc' = [pc EXCEPT ![s] = "updated"]
    /\ kind' = [kind EXCEPT ![s] = "update"]
    /\ UNCHANGED <<db, now, user, batchLen, batch, targets, resp, alone, prior,
                   updatedAt>>

\* The caller of update_event_state commits.
UpdateCommit(s) ==
    /\ pc[s] = "updated"
    /\ db' = Committed(s)
    /\ updatedAt' = [i \in 1..MaxId |->
                        IF i \in txDel[s] THEN cnow[s] ELSE updatedAt[i]]
    /\ txDel' = [txDel EXCEPT ![s] = {}]
    /\ txIns' = [txIns EXCEPT ![s] = <<>>]
    /\ pc' = [pc EXCEPT ![s] = "done"]
    /\ UNCHANGED <<now, kind, user, batchLen, batch, targets, cnow, resp, alone,
                   prior, found>>

\* The caller of update_event_state ends its session without a commit.
UpdateDiscard(s) ==
    /\ pc[s] = "updated"
    /\ Rollback(s)
    /\ pc' = [pc EXCEPT ![s] = "done"]
    /\ UNCHANGED <<db, now, kind, user, batchLen, batch, targets, cnow, resp,
                   alone, prior, updatedAt, found>>

\* An INSERT sets updated_at of the new row (server_default now()).
StampInsert(s) ==
    updatedAt' = IF Len(txIns'[s]) > Len(txIns[s])
                 THEN [updatedAt EXCEPT ![txIns'[s][Len(txIns'[s])].id] = now]
                 ELSE updatedAt

(***************************************************************************)
(* Reads.  A read is one SELECT in a session of its own: it sees the       *)
(* committed rows.                                                         *)
(***************************************************************************)
NoRead ==
    [op |-> "none", user |-> 0, now |-> 0, asked |-> [some |-> FALSE, val |-> 0],
     days |-> 0, success |-> FALSE, message |-> "", events |-> <<>>,
     midSync |-> FALSE]

\* A sync of user u has changes that are not committed.
MidSync(u) ==
    \E s \in Sessions :
        /\ kind[s] = "sync" /\ user[s] = u /\ pc[s] = "sync_create"
        /\ txDel[s] # {}
        /\ txIns[s] # <<>>

\* EventRepository.get_user_events
ListEvents(u) ==
    /\ \E q \in OrderByStartAt({e \in db : UserEventsWhere(e, u)}) :
          seen' = [NoRead EXCEPT !.op = "list", !.user = u, !.events = q,
                                 !.success = TRUE, !.midSync = MidSync(u)]
    /\ UNCHANGED <<db, now, pc, kind, user, batchLen, batch, txDel, txIns,
                   targets, cnow, resp, alone, prior>>

\* The route's parameter days: int = 5.
DaysOrDefault(asked) == IF asked.some THEN asked.val ELSE DefaultDays

\* future = now + timedelta(days=days) raises OverflowError.
FutureOverflows(t, days) == t + days > DateTimeMax

\* GET /events/upcoming?days=N: the rows of the window in ascending
\* start_at, each through _to_response; when the end of the window is not a
\* datetime, the route's except clause answers success=False with no events.
Upcoming(u, asked) ==
    /\ IF FutureOverflows(now, DaysOrDefault(asked))
       THEN seen' = [NoRead EXCEPT !.op = "upcoming", !.user = u, !.now = now,
                                   !.asked = asked, !.days = DaysOrDefault(asked),
                                   !.message = "OverflowError",
                                   !.midSync = MidSync(u)]
       ELSE \E q \in OrderByStartAt({e \in db :
                        UpcomingWhere(e, u, now, DaysOrDefault(asked))}) :
               seen' = [op |-> "upcoming", user |-> u, now |-> now,
                        asked |-> asked, days |-> DaysOrDefault(asked),
                        success |-> TRUE, message |-> "found",
                        events |-> [i \in DOMAIN q |-> ToResponse(q[i])],
                        midSync |-> MidSync(u)]
    /\ UNCHANGED <<db, now, pc, kind, user, batchLen, batch, txDel, txIns,
                   targets, cnow, resp, alone, prior>>

(***************************************************************************)
(* POST /context/engine.  An optional value is a record: `some` tells      *)
(* whether it is there (not None), and the rest is the value.  A text the  *)
(* engine composes is the template it fills and the value it fills in.     *)
(***************************************************************************)
CalendarTitles == {"Team Sync", "Lunch"}
ActivityTypes == {"", "running"}
HeartRates == {0, 120}
Triggers ==
    {"location_change", "time_based", "activity_change", "health_alert",
     "bogus_trigger", "Location_Change", ""}
Errors == {"RuntimeError"}

\* CalendarEvent: title and start.
CalendarEvents == [title : CalendarTitles, start : Times]

\* list[CalendarEvent] | None, the lists up to MaxCalendar elements.
CalendarLists ==
    {[some |-> FALSE, val |-> <<>>]}
      \cup {[some |-> TRUE, val |-> q] :
               q \in UNION {[1..n -> CalendarEvents] : n \in 0..MaxCalendar}}

\* MotionData | None, with activity_type: str | None.
Motions ==
    {[some |-> FALSE, activity_type |-> [some |-> FALSE, val |-> ""]]}
      \cup {[some |-> TRUE, activity_type |-> a] :
               a \in {[some |-> FALSE, val |-> ""]}
                        \cup {[some |-> TRUE, val |-> v] : v \in ActivityTypes}}

\* HealthData | None, with heart_rate: float | None.
Healths ==
    {[some |-> FALSE, heart_rate |-> [some |-> FALSE, val |-> 0]]}
      \cup {[some |-> TRUE, heart_rate |-> h] :
               h \in {[some |-> FALSE, val |-> 0]}
                        \cup {[some |-> TRUE, val |-> v] : v \in HeartRates}}

\* ContextSnapshot
Snapshots == [calendar_events : CalendarLists, motion : Motions, health : Healths]

\* Python's truth value of a list | None, of a str | None, and of a model
\* object | None (an object is true whatever its fields hold).
ListTruth(l) == l.some /\ Len(l.val) > 0
StrTruth(x) == x.some /\ x.val # ""
ObjectTruth(o) == o.some

NoText == [some |-> FALSE, template |-> "", arg |-> ""]
Text(template, arg) == [some |-> TRUE, template |-> template, arg |-> arg]

NoNotification ==
    [some |-> FALSE, priority |-> "", title |-> "", body |-> NoText, action_label |-> ""]

\* NotificationPayload(priority=..., title=..., body=..., action_label=...)
NotificationPayload(priority, title, body, action_label) ==
    [some |-> TRUE, priority |-> priority, title |-> title, body |-> body,
     action_label |-> action_label]

\* ContextEngineResponse(decision=..., reasoning=..., notification=...)
ContextEngineResponse(decision, reasoning, notification) ==
    [decision |-> decision, reasoning |-> reasoning, notification |-> notification]

\* next_event = snapshot.calendar_events[0]
NextEvent_Last(snapshot) ==
    snapshot.calendar_events.val[Len(snapshot.calendar_events.val)]

NextEvent(snapshot) == snapshot.calendar_events.val[1]

\* A location_change rule that decides notify and builds no payload.
LocationChange_NoPayload(snapshot) ==
    IF ListTruth(snapshot.calendar_events)
    THEN ContextEngineResponse("notify",
             Text("User arrived at location, upcoming event: {}",
                  NextEvent(snapshot).title),
             NoNotification)
    ELSE ContextEngineResponse("no_action", NoText, NoNotification)

\* process_context, trigger == "location_change"
LocationChange(snapshot) ==
    IF ListTruth(snapshot.calendar_events)
    THEN ContextEngineResponse("notify",
             Text("User arrived at location, upcoming event: {}",
                  NextEvent(snapshot).title),
             NotificationPayload("normal", "upcoming activity",
                 Text("your activity '{}' is about to start", NextEvent(snapshot).title),
                 "view details"))
    ELSE ContextEngineResponse("no_action", NoText, NoNotification)

\* A time_based rule that reminds only of an event that starts by now.
TimeBased_OnlySoon(snapshot) ==
    IF ListTruth(snapshot.calendar_events) /\ NextEvent(snapshot).start <= now
    THEN ContextEngineResponse("notify",
             Text("Time-based reminder for: {}", NextEvent(snapshot).title),
             NotificationPayload("high", "activity reminder",
                 Text("your activity '{}' starts in 15 minutes",
                      NextEvent(snapshot).title),
                 "get ready"))
    ELSE ContextEngineResponse("no_action", NoText, NoNotification)

\* process_context, trigger == "time_based"
TimeBased(snapshot) ==
    IF ListTruth(snapshot.calendar_events)
    THEN ContextEngineResponse("notify",
             Text("Time-based reminder for: {}", NextEvent(snapshot).title),
             NotificationPayload("high", "activity reminder",
                 Text("your activity '{}' starts in 15 minutes",
                      NextEvent(snapshot).title),
                 "get ready"))
    ELSE ContextEngineResponse("no_action", NoText, NoNotification)

\* An activity_change rule that notifies when the snapshot has calendar events.
ActivityChange_WithCalendar(snapshot) ==
    IF ObjectTruth(snapshot.motion) /\ StrTruth(snapshot.motion.activity_type)
    THEN IF ListTruth(snapshot.calendar_events)
         THEN LocationChange(snapshot)
         ELSE ContextEngineResponse("monitor",
                  Text("Activity changed to: {}", snapshot.motion.activity_type.val),
                  NoNotification)
    ELSE ContextEngineResponse("no_action", NoText, NoNotification)

\* An activity_change rule that tests the motion object only.
ActivityChange_MotionOnly(snapshot) ==
    IF ObjectTruth(snapshot.motion)
    THEN ContextEngineResponse("monitor",
             Text("Activity changed to: {}", snapshot.motion.activity_type.val),
             NoNotification)
    ELSE ContextEngineResponse("no_action", NoText, NoNotification)

\* process_context, trigger == "activity_change"
ActivityChange(snapshot) ==
    IF ObjectTruth(snapshot.motion) /\ StrTruth(snapshot.motion.activity_type)
    THEN ContextEngineResponse("monitor",
             Text("Activity changed to: {}", snapshot.motion.activity_type.val),
             NoNotification)
    ELSE ContextEngineResponse("no_action", NoText, NoNotification)

\* A health_alert rule that wants a heart rate.
HealthAlert_NeedsHeartRate(snapshot) ==
    IF ObjectTruth(snapshot.health) /\ snapshot.health.heart_rate.some
    THEN ContextEngineResponse("notify",
             Text("Health data requires attention", ""),
             NotificationPayload("high", "health reminder",
                 Text("take a rest and mind your condition", ""), "learn more"))
    ELSE ContextEngineResponse("no_action", NoText, NoNotification)

\* process_context, trigger == "health_alert"
HealthAlert(snapshot) ==
    IF ObjectTruth(snapshot.health)
    THEN ContextEngineResponse("notify",
             Text("Health data requires attention", ""),
             NotificationPayload("high", "health reminder",
                 Text("take a rest and mind your condition", ""), "learn more"))
    ELSE ContextEngineResponse("no_action", NoText, NoNotification)

\* An else branch that gives no reasoning.
UnknownTrigger_NoReasoning(trigger) ==
    ContextEngineResponse("no_action", NoText, NoNotification)

\* process_context, the else branch
UnknownTrigger(trigger) ==
    ContextEngineResponse("no_action",
        Text("Unknown trigger type: {}", trigger), NoNotification)

\* A process_context that looks the user up in the event store, and acts
\* only for a user who has a stored event.
ProcessContext_ReadsStore(usr, trigger, snapshot) ==
    IF Owned(usr) = {}
    THEN ContextEngineResponse("no_action", NoText, NoNotification)
    ELSE IF trigger = "location_change" THEN LocationChange(snapshot)
    ELSE IF trigger = "time_based" THEN TimeBased(snapshot)
    ELSE IF trigger = "activity_change" THEN ActivityChange(snapshot)
    ELSE IF trigger = "health_alert" THEN HealthAlert(snapshot)
    ELSE UnknownTrigger(trigger)

\* ContextService.process_context
ProcessContext(usr, trigger, snapshot) ==
    IF trigger = "location_change" THEN LocationChange(snapshot)
    ELSE IF trigger = "time_based" THEN TimeBased(snapshot)
    ELSE IF trigger = "activity_change" THEN ActivityChange(snapshot)
    ELSE IF trigger = "health_alert" THEN HealthAlert(snapshot)
    ELSE UnknownTrigger(trigger)

NoSnapshot ==
    [calendar_events |-> [some |-> FALSE, val |-> <<>>],
     motion |-> [some |-> FALSE, activity_type |-> [some |-> FALSE, val |-> ""]],
     health |-> [some |-> FALSE, heart_rate |-> [some |-> FALSE, val |-> 0]]]

NoContext ==
    [pc |-> "idle", user |-> 0, trigger |-> "", snapshot |-> NoSnapshot,
     status |-> "none",
     response |-> ContextEngineResponse("", NoText, NoNotification)]

\* The request arrives at the route.
ContextRequest(usr, trigger, snapshot) ==
    /\ ctx.pc = "idle"
    /\ ctx' = [NoContext EXCEPT !.pc = "received", !.user = usr,
                                !.trigger = trigger, !.snapshot = snapshot]

\* context_engine: process_context returns and the route returns its response.
ContextEngine ==
    /\ ctx.pc = "received"
    /\ ctx' = [ctx EXCEPT !.pc = "done", !.status = "sent",
                          !.response = ProcessContext(ctx.user, ctx.trigger,
                                                      ctx.snapshot)]

\* A route without its except clause: the error reaches the caller.
ContextEngineFails_Propagates(e) ==
    /\ ctx.pc = "received"
    /\ ctx' = [ctx EXCEPT !.pc = "done", !.status = "raised"]

\* context_engine: the processing raises e, and the except clause answers.
ContextEngineFails(e) ==
    /\ ctx.pc = "received"
    /\ ctx' = [ctx EXCEPT !.pc = "done", !.status = "sent",
                          !.response = ContextEngineResponse("error", Text("{}", e),
                                                             NoNotification)]

\* An invocation of process_context as it was made: who asked, with what,
\* over an empty store or not, and what was returned.
NoDecided ==
    [some |-> FALSE, user |-> 0, trigger |-> "", snapshot |-> NoSnapshot,
     empty |-> TRUE,
     response |-> ContextEngineResponse("", NoText, NoNotification)]
Invocation ==
    [some |-> TRUE, user |-> ctx.user, trigger |-> ctx.trigger,
     snapshot |-> ctx.snapshot, empty |-> (db = {}),
     response |-> ctx'.response]

\* The caller has its outcome.
ContextClose ==
    /\ ctx.pc = "done"
    /\ ctx' = NoContext

(***************************************************************************)
(* The users table and Apple sign-in.  Every method commits what it writes *)
(* itself, and the table has a unique constraint on apple_id and one on    *)
(* email; between two awaits of a request the requests of other callers    *)
(* run.                                                                    *)
(***************************************************************************)
AppleIds == {"a", "b"}
Emails == {"e1", "e2"}

\* str | None
NoneStr == [some |-> FALSE, val |-> ""]
Some(v) == [some |-> TRUE, val |-> v]
OptEmails == {NoneStr} \cup {Some(e) : e \in Emails}

\* What apple_oauth.verify_authorization_code returns: None for a code that
\* is not valid, or the apple_id and the email, if any, of the account.
NoAppleInfo == [valid |-> FALSE, apple_id |-> "", email |-> NoneStr]
AppleInfos ==
    {NoAppleInfo} \cup [valid : {TRUE}, apple_id : AppleIds, email : OptEmails]

\* User(email=..., apple_id=..., hashed_password=None, is_active=...)
AppleUser(id, email, apple_id, is_active) ==
    [id |-> id, email |-> email, apple_id |-> Some(apple_id),
     hashed_password |-> NoneStr, is_active |-> is_active]

NoUserRequest ==
    [pc |-> "idle", op |-> "none", apple_id |-> "", email |-> NoneStr,
     is_active |-> TRUE, user_id |-> 0, result |-> "", tokens |-> FALSE,
     wrote |-> FALSE]

\* The rows get_by_apple_id and get_by_email select, and the row of an id.
ByAppleId(apple_id) == {u \in userTable : u.apple_id = Some(apple_id)}
ByEmail(email) == {u \in userTable : u.email = email}
ById(user_id) == {u \in userTable : u.id = user_id}

\* The unique constraints of the table hold for the rows.
UniqueOk(rows) ==
    \A u1, u2 \in rows :
        u1 # u2 =>
            /\ u1.id # u2.id
            /\ u1.apple_id.some => u1.apple_id # u2.apple_id
            /\ u1.email.some => u1.email # u2.email

\* The request of caller c proceeds to pc, or ends with an exception.
Proceed(c, to) == ureq' = [ureq EXCEPT ![c].pc = to]
Raise(c, e) == ureq' = [ureq EXCEPT ![c].pc = "done", ![c].result = e]

FrameAccount ==
    UNCHANGED <<db, now, pc, kind, user, batchLen, batch, txDel, txIns,
                targets, cnow, resp, alone, prior, lastOp, seen, engineVars,
                lookupVars>>

\* UserRepository.create_apple_user is called.
CreateAppleUser(c, email, apple_id, is_active) ==
    /\ ureq[c].pc = "idle"
    /\ ureq' = [ureq EXCEPT ![c] =
                   [NoUserRequest EXCEPT !.pc = "check_apple",
                        !.op = "create_apple_user", !.email = email,
                        !.apple_id = apple_id, !.is_active = is_active]]
    /\ UNCHANGED userTable

\* UserRepository.link_apple_account is called.
LinkAppleAccount(c, user_id, apple_id) ==
    /\ ureq[c].pc = "idle"
    /\ ureq' = [ureq EXCEPT ![c] =
                   [NoUserRequest EXCEPT !.pc = "check_apple",
                        !.op = "link_apple_account", !.user_id = user_id,
                        !.apple_id = apple_id]]
    /\ UNCHANGED userTable

\* Where a request goes on when its apple_id is not registered.
AfterCheckApple(c) ==
    IF ureq[c].op = "link_apple_account" THEN "get_user"
    ELSE IF ureq[c].email.some THEN "check_email"
    ELSE "insert_commit"

\* create_apple_user and link_apple_account: get_by_apple_id, and
\* AlreadyExistsException when it finds a user.
CheckApple(c) ==
    /\ ureq[c].pc = "check_apple"
    /\ IF ByAppleId(ureq[c].apple_id) # {}
       THEN Raise(c, "AlreadyExists")
       ELSE Proceed(c, AfterCheckApple(c))
    /\ UNCHANGED userTable

\* create_apple_user: get_by_email when email is given.
CheckEmail(c) ==
    /\ ureq[c].pc = "check_email"
    /\ IF ByEmail(ureq[c].email) # {}
       THEN Raise(c, "AlreadyExists")
       ELSE Proceed(c, "insert_commit")
    /\ UNCHANGED userTable

\* create_apple_user: session.add(user), commit and refresh.  The commit
\* raises IntegrityError when a unique constraint turns the row down.  From
\* authenticate_with_apple the method returns to the check of is_active.
InsertCommit(c) ==
    /\ ureq[c].pc = "insert_commit"
    /\ Cardinality(userTable) < MaxUsers
    /\ LET new == AppleUser(Cardinality(userTable) + 1, ureq[c].email,
                            ureq[c].apple_id, ureq[c].is_active)
       IN IF UniqueOk(userTable \cup {new})
          THEN /\ userTable' = userTable \cup {new}
               /\ ureq' = [ureq EXCEPT
                     ![c].wrote = TRUE, ![c].user_id = new.id,
                     ![c].pc = IF ureq[c].op = "login" THEN "finish" ELSE "done",
                     ![c].result = IF ureq[c].op = "login" THEN "" ELSE "ok"]
          ELSE /\ Raise(c, "IntegrityError")
               /\ UNCHANGED userTable

\* link_apple_account: get_by_id, NotFoundException when there is no user.
GetUser(c) ==
    /\ ureq[c].pc = "get_user"
    /\ IF ById(ureq[c].user_id) = {}
       THEN Raise(c, "NotFound")
       ELSE Proceed(c, "link_commit")
    /\ UNCHANGED userTable

\* The table with one column of the row user_id set.
WithAppleId(user_id, apple_id) ==
    {IF u.id = user_id THEN [u EXCEPT !.apple_id = Some(apple_id)] ELSE u :
        u \in userTable}

WithEmail(user_id, email) ==
    {IF u.id = user_id THEN [u EXCEPT !.email = email] ELSE u : u \in userTable}

\* link_apple_account: user.apple_id = apple_id, commit and refresh.
LinkCommit(c) ==
    /\ ureq[c].pc = "link_commit"
    /\ IF UniqueOk(WithAppleId(ureq[c].user_id, ureq[c].apple_id))
       THEN /\ userTable' = WithAppleId(ureq[c].user_id, ureq[c].apple_id)
            /\ ureq' = [ureq EXCEPT ![c].wrote = TRUE, ![c].pc = "done",
                                    ![c].result = "ok"]
       ELSE /\ Raise(c, "IntegrityError")
            /\ UNCHANGED userTable

\* UserService.authenticate_with_apple: verify_authorization_code has
\* returned info; None raises UnauthorizedException.
AppleLogin(c, info) ==
    /\ ureq[c].pc = "idle"
    /\ ureq' = [ureq EXCEPT ![c] =
                   IF info.valid
                   THEN [NoUserRequest EXCEPT !.pc = "lookup", !.op = "login",
                             !.apple_id = info.apple_id, !.email = info.email]
                   ELSE [NoUserRequest EXCEPT !.pc = "done", !.op = "login",
                             !.result = "Unauthorized"]]
    /\ UNCHANGED userTable

\* authenticate_with_apple: get_by_apple_id; an existing user whose email is
\* not the one Apple gives is to be updated, a new user is to be created
\* with is_active=True.
LoginLookup(c) ==
    /\ ureq[c].pc = "lookup"
    /\ IF ByAppleId(ureq[c].apple_id) # {}
       THEN LET usr == CHOOSE u \in ByAppleId(ureq[c].apple_id) : TRUE
            IN ureq' = [ureq EXCEPT
                          ![c].user_id = usr.id,
                          ![c].pc = IF ureq[c].email.some /\ usr.email # ureq[c].email
                                    THEN "email_commit" ELSE "finish"]
       ELSE ureq' = [ureq EXCEPT ![c].pc = "check_apple", ![c].is_active = TRUE]
    /\ UNCHANGED userTable

\* authenticate_with_apple: user.email = email and the commit.
EmailCommit(c) ==
    /\ ureq[c].pc = "email_commit"
    /\ IF UniqueOk(WithEmail(ureq[c].user_id, ureq[c].email))
       THEN /\ userTable' = WithEmail(ureq[c].user_id, ureq[c].email)
            /\ ureq' = [ureq EXCEPT ![c].wrote = TRUE, ![c].pc = "finish"]
       ELSE /\ Raise(c, "IntegrityError")
            /\ UNCHANGED userTable

\* authenticate_with_apple: a disabled user raises UnauthorizedException,
\* any other gets the access token and the refresh token.
LoginFinish(c) ==
    /\ ureq[c].pc = "finish"
    /\ LET usr == CHOOSE u \in ById(ureq[c].user_id) : TRUE
       IN IF ~ usr.is_active
          THEN Raise(c, "Unauthorized")
          ELSE ureq' = [ureq EXCEPT ![c].pc = "done", ![c].result = "ok",
                                    ![c].tokens = TRUE]
    /\ UNCHANGED userTable

\* The caller has its result.
AccountClose(c) ==
    /\ ureq[c].pc = "done"
    /\ ureq' = [ureq EXCEPT ![c] = NoUserRequest]
    /\ UNCHANGED userTable

\* Time passes.
Tick ==
    /\ now < MaxTime
    /\ now' = now + 1
    /\ UNCHANGED <<db, pc, kind, user, batchLen, batch, txDel, txIns,
                   targets, cnow, resp, alone, prior>>

Init ==
    /\ db = {}
    /\ now = 0
    /\ pc = [s \in Sessions |-> "idle"]
    /\ kind = [s \in Sessions |-> "none"]
    /\ user = [s \in Sessions |-> 0]
    /\ batchLen = [s \in Sessions |-> 0]
    /\ batch = [s \in Sessions |-> <<>>]
    /\ txDel = [s \in Sessions |-> {}]
    /\ txIns = [s \in Sessions |-> <<>>]
    /\ targets = [s \in Sessions |-> {}]
    /\ cnow = [s \in Sessions |-> 0]
    /\ resp = [s \in Sessions |-> NoResp]
    /\ alone = [s \in Sessions |-> TRUE]
    /\ prior = [s \in Sessions |-> {}]
    /\ lastOp = [u \in Users |-> NoOp]
    /\ seen = NoRead
    /\ ctx = NoContext
    /\ decided = NoDecided
    /\ updatedAt = [i \in 1..MaxId |-> 0]
    /\ found = NoFound
    /\ userTable = {}
    /\ ureq = [c \in Sessions |-> NoUserRequest]

\* Requests that write, as they come: the handlers of concurrent requests
\* interleave.
Next ==
    \/ \E s \in Sessions, u \in Users, n \in 0..MaxBatch :
          SyncDelete(s, u, n) /\ UNCHANGED <<lastOp, seen, elsewhere>>
    \/ \E s \in Sessions, ev \in EventInputs :
          SyncCreate(s, ev) /\ UNCHANGED <<lastOp, seen, elsewhere>>
    \/ \E s \in Sessions : SyncCommit(s) /\ UNCHANGED <<lastOp, seen, elsewhere>>
    \/ \E s \in Sessions, u \in Users :
          CleanupDelete(s, u) /\ UNCHANGED <<lastOp, seen, elsewhere>>
    \/ \E s \in Sessions : CleanupCommit(s) /\ UNCHANGED <<lastOp, seen, elsewhere>>
    \/ \E s \in Sessions : DeleteResume(s) /\ UNCHANGED <<lastOp, seen, elsewhere>>
    \/ \E s \in Sessions : StorageError(s) /\ UNCHANGED <<lastOp, seen, elsewhere>>
    \/ \E s \in Sessions : Cancel(s) /\ UNCHANGED <<lastOp, seen, elsewhere>>
    \/ \E s \in Sessions : SessionClose(s) /\ UNCHANGED <<lastOp, seen, elsewhere>>
    \/ Tick /\ UNCHANGED <<lastOp, seen, elsewhere>>

Spec == Init /\ [][Next]_vars

\* Requests one after the other: a request begins when the request before
\* it has ended and its session is closed (so one session serves them all),
\* and lastOp keeps the last request that committed for each user.
OneAtATime(s) == \A t \in Sessions : t # s => pc[t] = "idle" /\ s < t

NextSeq ==
    \/ \E s \in Sessions, u \in Users, n \in 0..MaxBatch :
          OneAtATime(s) /\ SyncDelete(s, u, n) /\ UNCHANGED <<lastOp, seen, elsewhere>>
    \/ \E s \in Sessions, ev \in EventInputs :
          SyncCreate(s, ev) /\ UNCHANGED <<lastOp, seen, elsewhere>>
    \/ \E s \in Sessions :
          /\ SyncCommit(s)
          /\ lastOp' = [lastOp EXCEPT ![user[s]] = SyncOp(s)]
          /\ UNCHANGED <<seen, elsewhere>>
    \/ \E s \in Sessions, u \in Users :
          OneAtATime(s) /\ CleanupDelete(s, u) /\ UNCHANGED <<lastOp, seen, elsewhere>>
    \/ \E s \in Sessions :
          /\ CleanupCommit(s)
          /\ lastOp' = [lastOp EXCEPT ![user[s]] = CleanupOp(s)]
          /\ UNCHANGED <<seen, elsewhere>>
    \/ \E s \in Sessions : StorageError(s) /\ UNCHANGED <<lastOp, seen, elsewhere>>
    \/ \E s \in Sessions : Cancel(s) /\ UNCHANGED <<lastOp, seen, elsewhere>>
    \/ \E s \in Sessions : SessionClose(s) /\ UNCHANGED <<lastOp, seen, elsewhere>>
    \/ Tick /\ UNCHANGED <<lastOp, seen, elsewhere>>

SpecSeq == Init /\ [][NextSeq]_vars

\* Reads at any moment of the requests that write, the writing requests
\* coming one after the other.
NextRead ==
    \/ \E s \in Sessions, u \in Users, n \in 0..MaxBatch :
          OneAtATime(s) /\ SyncDelete(s, u, n) /\ UNCHANGED <<lastOp, seen, elsewhere>>
    \/ \E s \in Sessions, ev \in EventInputs :
          SyncCreate(s, ev) /\ UNCHANGED <<lastOp, seen, elsewhere>>
    \/ \E s \in Sessions : SyncCommit(s) /\ UNCHANGED <<lastOp, seen, elsewhere>>
    \/ \E s \in Sessions, u \in Users :
          OneAtATime(s) /\ CleanupDelete(s, u) /\ UNCHANGED <<lastOp, seen, elsewhere>>
    \/ \E s \in Sessions : CleanupCommit(s) /\ UNCHANGED <<lastOp, seen, elsewhere>>
    \/ \E s \in Sessions : StorageError(s) /\ UNCHANGED <<lastOp, seen, elsewhere>>
    \/ \E s \in Sessions : Cancel(s) /\ UNCHANGED <<lastOp, seen, elsewhere>>
    \/ \E s \in Sessions : SessionClose(s) /\ UNCHANGED <<lastOp, seen, elsewhere>>
    \/ Tick /\ UNCHANGED <<lastOp, seen, elsewhere>>
    \/ \E u \in Users : ListEvents(u) /\ UNCHANGED <<lastOp, elsewhere>>
    \/ \E u \in Users, asked \in QueryDays :
          Upcoming(u, asked) /\ UNCHANGED <<lastOp, elsewhere>>

SpecRead == Init /\ [][NextRead]_vars

\* The context engine alone: it reads and writes no stored event.
FrameContext ==
    UNCHANGED <<db, now, pc, kind, user, batchLen, batch, txDel, txIns,
                targets, cnow, resp, alone, prior, lastOp, seen, lookupVars,
                accountVars>>

NextContext ==
    \/ \E usr \in Users, trigger \in Triggers, snapshot \in Snapshots :
          ContextRequest(usr, trigger, snapshot) /\ FrameContext /\ UNCHANGED decided
    \/ ContextEngine /\ FrameContext /\ UNCHANGED decided
    \/ \E e \in Errors : ContextEngineFails(e) /\ FrameContext /\ UNCHANGED decided
    \/ ContextClose /\ FrameContext /\ UNCHANGED decided

SpecContext == Init /\ [][NextContext]_vars

\* The id-scoped methods next to syncs and cleanups that come one after the
\* other, the column updated_at kept.
FrameCaller == UNCHANGED <<lastOp, seen, engineVars, accountVars>>

NextLookup ==
    \/ \E s \in Sessions, u \in Users, n \in 0..MaxBatch :
          /\ OneAtATime(s) /\ SyncDelete(s, u, n)
          /\ FrameCaller /\ UNCHANGED lookupVars
    \/ \E s \in Sessions, ev \in EventInputs :
          SyncCreate(s, ev) /\ StampInsert(s) /\ FrameCaller /\ UNCHANGED found
    \/ \E s \in Sessions : SyncCommit(s) /\ FrameCaller /\ UNCHANGED lookupVars
    \/ \E s \in Sessions, u \in Users :
          /\ OneAtATime(s) /\ CleanupDelete(s, u)
          /\ FrameCaller /\ UNCHANGED lookupVars
    \/ \E s \in Sessions : CleanupCommit(s) /\ FrameCaller /\ UNCHANGED lookupVars
    \/ \E s \in Sessions : SessionClose(s) /\ FrameCaller /\ UNCHANGED lookupVars
    \/ Tick /\ FrameCaller /\ UNCHANGED lookupVars
    \/ \E event_id \in 1..MaxId : GetById(event_id) /\ FrameCaller
    \/ \E u \in Users, source_event_id \in SourceIds :
          GetBySourceId(u, source_event_id) /\ FrameCaller
    \/ \E s \in Sessions, event_id \in 1..MaxId, state \in UpdateStates :
          OneAtATime(s) /\ UpdateEventState(s, event_id, state) /\ FrameCaller
    \/ \E s \in Sessions : UpdateCommit(s) /\ FrameCaller
    \/ \E s \in Sessions : UpdateDiscard(s) /\ FrameCaller

SpecLookup == Init /\ [][NextLookup]_vars

\* One sync and one cleanup of a user at a time: a request begins when no
\* other is being served, or next to a request of the other kind of the same
\* user that is in progress and has had no request next to it yet.
MayBegin(s, k, u) ==
    \A o \in Sessions \ {s} :
        \/ pc[o] = "idle"
        \/ InProgress(o) /\ kind[o] # k /\ user[o] = u /\ alone[o]

NextPair ==
    \/ \E s \in Sessions, u \in Users, n \in 0..MaxBatch :
          /\ MayBegin(s, "sync", u) /\ SyncDelete(s, u, n)
          /\ UNCHANGED <<lastOp, seen, elsewhere>>
    \/ \E s \in Sessions, ev \in EventInputs :
          SyncCreate(s, ev) /\ UNCHANGED <<lastOp, seen, elsewhere>>
    \/ \E s \in Sessions : SyncCommit(s) /\ UNCHANGED <<lastOp, seen, elsewhere>>
    \/ \E s \in Sessions, u \in Users :
          /\ MayBegin(s, "auto_sync", u) /\ CleanupDelete(s, u)
          /\ UNCHANGED <<lastOp, seen, elsewhere>>
    \/ \E s \in Sessions : CleanupCommit(s) /\ UNCHANGED <<lastOp, seen, elsewhere>>
    \/ \E s \in Sessions : DeleteResume(s) /\ UNCHANGED <<lastOp, seen, elsewhere>>
    \/ \E s \in Sessions : SessionClose(s) /\ UNCHANGED <<lastOp, seen, elsewhere>>
    \/ Tick /\ UNCHANGED <<lastOp, seen, elsewhere>>

SpecPair == Init /\ [][NextPair]_vars

\* The requests to the user service and the calls of the user repository,
\* of two callers at a time.
NextAccount ==
    \/ \E c \in Sessions, email \in OptEmails, apple_id \in AppleIds,
          is_active \in BOOLEAN :
          CreateAppleUser(c, email, apple_id, is_active) /\ FrameAccount
    \/ \E c \in Sessions, user_id \in 1..MaxUsers, apple_id \in AppleIds :
          LinkAppleAccount(c, user_id, apple_id) /\ FrameAccount
    \/ \E c \in Sessions, info \in AppleInfos : AppleLogin(c, info) /\ FrameAccount
    \/ \E c \in Sessions : CheckApple(c) /\ FrameAccount
    \/ \E c \in Sessions : CheckEmail(c) /\ FrameAccount
    \/ \E c \in Sessions : InsertCommit(c) /\ FrameAccount
    \/ \E c \in Sessions : GetUser(c) /\ FrameAccount
    \/ \E c \in Sessions : LinkCommit(c) /\ FrameAccount
    \/ \E c \in Sessions : LoginLookup(c) /\ FrameAccount
    \/ \E c \in Sessions : EmailCommit(c) /\ FrameAccount
    \/ \E c \in Sessions : LoginFinish(c) /\ FrameAccount
    \/ \E c \in Sessions : AccountClose(c) /\ FrameAccount

SpecAccount == Init /\ [][NextAccount]_vars

\* Syncs one after the other whose events have any two timestamps.
NextAnyOrder ==
    \/ \E s \in Sessions, u \in Users, n \in 0..MaxBatch :
          /\ OneAtATime(s) /\ SyncDelete(s, u, n)
          /\ UNCHANGED <<lastOp, seen, elsewhere>>
    \/ \E s \in Sessions, ev \in EventInputsAnyOrder :
          SyncCreate(s, ev) /\ UNCHANGED <<lastOp, seen, elsewhere>>
    \/ \E s \in Sessions : SyncCommit(s) /\ UNCHANGED <<lastOp, seen, elsewhere>>
    \/ \E s \in Sessions : SessionClose(s) /\ UNCHANGED <<lastOp, seen, elsewhere>>
    \/ Tick /\ UNCHANGED <<lastOp, seen, elsewhere>>

SpecAnyOrder == Init /\ [][NextAnyOrder]_vars

\* The context engine next to a store that changes: syncs of one event, one
\* after the other, the clock, and requests to the engine, of which any one
\* may be kept in decided to compare a later one with.
DecideTriggers ==
    {"location_change", "time_based", "activity_change", "health_alert",
     "bogus_trigger"}
DecideSnapshots ==
    {sn \in Snapshots :
        /\ sn.calendar_events.some =>
              /\ Len(sn.calendar_events.val) = 1
              /\ sn.calendar_events.val[1] = [title |-> "Team Sync", start |-> 0]
        /\ sn.motion.some
        /\ sn.motion.activity_type = [some |-> TRUE, val |-> "running"]
        /\ ~ sn.health.some}

FrameStore == UNCHANGED <<lastOp, seen>>

NextDecide ==
    \/ \E s \in Sessions, u \in Users :
          OneAtATime(s) /\ SyncDelete(s, u, 1) /\ FrameStore /\ UNCHANGED elsewhere
    \/ \E s \in Sessions, ev \in EventInputs :
          SyncCreate(s, ev) /\ FrameStore /\ UNCHANGED elsewhere
    \/ \E s \in Sessions : SyncCommit(s) /\ FrameStore /\ UNCHANGED elsewhere
    \/ \E s \in Sessions : SessionClose(s) /\ FrameStore /\ UNCHANGED elsewhere
    \/ Tick /\ FrameStore /\ UNCHANGED elsewhere
    \/ \E usr \in Users, trigger \in DecideTriggers, snapshot \in DecideSnapshots :
          ContextRequest(usr, trigger, snapshot) /\ FrameContext /\ UNCHANGED decided
    \/ ContextEngine /\ FrameContext /\ decided' \in {decided, Invocation}
    \/ ContextClose /\ FrameContext /\ UNCHANGED decided

SpecDecide == Init /\ [][NextDecide]_vars

(***************************************************************************)
(* The properties of the reconciliation.                                   *)
(***************************************************************************)

\* The instant a well-formed timestamp string denotes.
Instant(str) == str.t

\* A timestamp string that is not ISO-8601.
Malformed(str) == str.form = "bad"

\* What a caller compares of a stored event and of a batch element.
RowTuple(e) == <<e.source_event_id, e.title, e.start_at, e.end_at>>
InputTuple(ev) ==
    <<ev.source_event_id, ev.title, Instant(ev.start_at), Instant(ev.end_at)>>

\* The rows carry the same multiset of tuples as the batch.
SameMultiset(rows, b) ==
    /\ Cardinality(rows) = Len(b)
    /\ \A x \in {RowTuple(e) : e \in rows} \cup {InputTuple(b[i]) : i \in DOMAIN b} :
          Cardinality({e \in rows : RowTuple(e) = x})
            = Cardinality({i \in DOMAIN b : InputTuple(b[i]) = x})

\* The step in which the sync of session s commits and answers.
SyncSucceeds(s) ==
    kind[s] = "sync" /\ pc[s] = "sync_create" /\ pc'[s] = "done" /\ resp'[s].success

\* The step in which the sync of session s ends without a commit.
SyncFails(s) ==
    kind[s] = "sync" /\ InProgress(s) /\ pc'[s] = "done" /\ ~ resp'[s].success

\* C1. Full replace: when a sync of a non-empty batch B succeeds (no other
\* writer of the same user overlapping it), the user's events are then
\* exactly the multiset of (source_event_id, title, start_at, end_at) of B,
\* none of the rows the user owned before is among them, and synced_count
\* is len(B).
C1_FullReplace ==
    [][\A s \in Sessions :
          SyncSucceeds(s) /\ alone[s] /\ batchLen[s] > 0 =>
              /\ SameMultiset(Owned(user[s])', batch[s])
              /\ Ids(Owned(user[s])') \cap Ids(prior[s]) = {}
              /\ resp'[s].synced_count = batchLen[s]]_vars

\* A sync of a non-empty batch has replaced the events the user owned.
C1_Witness ==
    \E s \in Sessions :
        /\ pc[s] = "done" /\ kind[s] = "sync" /\ resp[s].success /\ alone[s]
        /\ prior[s] # {}
        /\ Len(batch[s]) > 0
        /\ resp[s].synced_count = Len(batch[s])
        /\ SameMultiset(Owned(user[s]), batch[s])

\* C4. A sync of the empty batch succeeds, returns 0 and leaves the user
\* with no events, whatever the user owned before.
C4_EmptyBatchClears ==
    [][\A s \in Sessions :
          kind[s] = "sync" /\ pc[s] = "sync_create" /\ batchLen[s] = 0
            /\ alone[s] /\ SyncCommit(s) =>
              /\ resp'[s] = SyncedResp(0)
              /\ Owned(user[s])' = {}]_vars

\* A sync of the empty batch has removed the events the user owned.
C4_Witness ==
    \E s \in Sessions :
        /\ pc[s] = "done" /\ kind[s] = "sync" /\ alone[s]
        /\ resp[s].success /\ resp[s].synced_count = 0
        /\ batch[s] = <<>>
        /\ prior[s] # {}
        /\ Owned(user[s]) = {}

\* C2. Atomicity: when a sync fails or is aborted after its delete (a
\* malformed element, a storage error, the caller giving up), the user's
\* visible events are exactly those visible when the request began, and
\* nothing of its transaction is left to become visible later.
C2_FailedSyncRestores ==
    [][\A s \in Sessions :
          SyncFails(s) /\ alone[s] =>
              /\ Owned(user[s])' = prior[s]
              /\ txDel'[s] = {}
              /\ txIns'[s] = <<>>]_vars

\* A sync that had deleted the user's events and inserted part of its batch
\* was hit by a storage error, and the user's events are the prior ones.
C2_Witness ==
    \E s \in Sessions :
        /\ pc[s] = "done" /\ kind[s] = "sync" /\ alone[s]
        /\ resp[s] = FailureResp("StorageError")
        /\ batch[s] # <<>>
        /\ prior[s] # {}
        /\ Owned(user[s]) = prior[s]

\* C3. A malformed start_at or end_at at any position of the batch fails the
\* sync as a whole: the caller gets the failure response, and no element of
\* the batch is or becomes visible, the well-formed ones before it included.
C3_MalformedFailsBatch ==
    [][\A s \in Sessions, ev \in EventInputs :
          (Malformed(ev.start_at) \/ Malformed(ev.end_at)) /\ SyncCreate(s, ev) =>
              /\ pc'[s] = "done"
              /\ resp'[s].status = "sent"
              /\ ~ resp'[s].success
              /\ resp'[s].synced_count = 0
              /\ db' = db
              /\ txIns'[s] = <<>>]_vars

\* A batch whose second element is malformed has failed, and the user's
\* events are without the first element.
C3_Witness ==
    \E s \in Sessions :
        /\ pc[s] = "done" /\ kind[s] = "sync"
        /\ resp[s] = FailureResp("ValueError")
        /\ batch[s] # <<>>
        /\ \A e \in Owned(user[s]) : e \in prior[s]

\* C6. User isolation: a step of a request of one user, whatever its outcome
\* and whatever runs next to it, leaves the committed events of every other
\* user as they are, and its transaction holds no row of another user.
C6_UserIsolation ==
    [][\A s \in Sessions :
          pc'[s] # pc[s] =>
              /\ \A u \in Users \ {user[s], user'[s]} : Owned(u)' = Owned(u)
              /\ \A e \in db : e.id \in txDel'[s] => e.user_id = user'[s]
              /\ \A e \in Range(txIns'[s]) : e.user_id = user'[s]]_vars

\* A sync of one user has committed while a request of another user, who
\* owns events, was in progress.
C6_Witness ==
    \E s, t \in Sessions :
        /\ pc[s] = "done" /\ kind[s] = "sync" /\ resp[s].success
        /\ InProgress(t) /\ user[t] # user[s]
        /\ txDel[t] # {}
        /\ Owned(user[t]) # {}
        /\ Owned(user[s]) # {}

\* The step in which the cleanup of session s commits and answers.
CleanupSucceeds(s) ==
    kind[s] = "auto_sync" /\ pc[s] = "cleanup_commit" /\ pc'[s] = "done"
      /\ resp'[s].success

\* C9. Cleanup removes exactly the user's events with end_at strictly before
\* the clock it read: those are gone, and every event with end_at >= now, one
\* ending exactly at now included, stays with its identity and fields.
C9_CleanupStrict ==
    [][\A s \in Sessions :
          CleanupSucceeds(s) /\ alone[s] =>
              Owned(user[s])' = {e \in prior[s] : e.end_at >= cnow[s]}]_vars

\* A cleanup has removed an event and kept one that ends exactly at now.
C9_Witness ==
    \E s \in Sessions :
        /\ pc[s] = "done" /\ kind[s] = "auto_sync" /\ resp[s].success /\ alone[s]
        /\ \E e \in prior[s] : e \notin Owned(user[s])
        /\ \E e \in Owned(user[s]) : e.end_at = cnow[s] /\ e \in prior[s]

\* The fields of the rows but their identity and owner, as a multiset: the
\* number of rows carrying each combination of the fields.
FieldView(rows) ==
    [x \in {[e EXCEPT !.id = 0, !.user_id = 0] : e \in db} |->
        Cardinality({e \in rows : [e EXCEPT !.id = 0, !.user_id = 0] = x})]

\* C11. Cleanup returns deleted_count: what the cleanup returns to its caller
\* is the number of the user's events it removed.
C11_CleanupReturnsCount ==
    [][\A s \in Sessions :
          CleanupSucceeds(s) /\ alone[s] =>
              resp'[s].returned = PyInt(Cardinality(prior[s] \ Owned(user[s])'))]_vars

\* C5. History independence: after syncs that succeeded one after the
\* other, the field values of a user's events depend on the last batch only.
\* Two users whose last committed request is a sync of the same batch have
\* the same field values, whatever each of them synced before, and syncing
\* the same batch a second time changes nothing but the identities.
C5_HistoryIndependence ==
    \A u1, u2 \in Users :
        lastOp[u1].op = "sync" /\ lastOp[u2].op = "sync"
          /\ lastOp[u1].batch = lastOp[u2].batch =>
            FieldView(Owned(u1)) = FieldView(Owned(u2))

\* One user has synced a batch after a sync of another batch, the other user
\* has synced that batch once.
C5_Witness ==
    \E u1, u2 \in Users :
        /\ u1 # u2
        /\ lastOp[u1].op = "sync" /\ lastOp[u2].op = "sync"
        /\ lastOp[u1].batch = lastOp[u2].batch
        /\ lastOp[u1].batch # <<>>
        /\ lastOp[u1].before.op = "sync"
        /\ lastOp[u1].before.batch # lastOp[u1].batch
        /\ lastOp[u1].before.batch # <<>>
        /\ lastOp[u2].before.op = "none"
        /\ Owned(u1) # {}

\* C7. Last writer wins: when two syncs of the same user overlap and both
\* commit, the user's events after the later commit are exactly the batch of
\* the sync that committed later.
C7_LastWriterWins ==
    [][\A s, t \in Sessions :
          /\ s # t
          /\ SyncSucceeds(s) /\ ~ alone[s]
          /\ kind[t] = "sync" /\ user[t] = user[s]
          /\ pc[t] = "done" /\ resp[t].success /\ ~ alone[t]
          => SameMultiset(Owned(user[s])', batch[s])]_vars

\* The step in which a read of user u runs while session s serves a sync of u.
ReadsDuring(s, u) == kind[s] = "sync" /\ user[s] = u /\ InProgress(s)

\* C8. A read that runs while a sync of the user is in progress returns the
\* complete prior set (for upcoming: its part in the window), and the sync
\* commits once, after its delete and all its inserts: the table changes in
\* the one step that makes the complete batch visible.
C8_NoHalfReplacedRead ==
    [][\A s \in Sessions :
          /\ \A u \in Users :
                ReadsDuring(s, u) /\ ListEvents(u) =>
                    Range(seen'.events) = prior[s]
          /\ \A u \in Users, asked \in QueryDays :
                ReadsDuring(s, u) /\ Upcoming(u, asked) /\ seen'.success =>
                    Range(seen'.events)
                      = {ToResponse(e) : e \in {r \in prior[s] :
                            r.start_at >= now /\ r.start_at <= now + seen'.days}}
          /\ kind[s] = "sync" /\ InProgress(s) /\ db' # db =>
                /\ SyncSucceeds(s)
                /\ txDel[s] = Ids(prior[s])
                /\ Len(txIns[s]) = batchLen[s]
                /\ SameMultiset(Owned(user[s])', batch[s])]_vars

\* A list read ran while a sync had deleted the user's events and inserted
\* part of its batch, and returned the events the user owned.
C8_Witness ==
    /\ seen.op = "list" /\ seen.midSync
    /\ seen.events # <<>>
    /\ \E s \in Sessions :
          /\ pc[s] = "sync_create" /\ user[s] = seen.user
          /\ Range(seen.events) = prior[s]
          /\ Range(txIns[s]) \cap Range(seen.events) = {}

\* The window of an upcoming request as the contract words it: window_days
\* is the parameter, 5 when it is left out.
WindowDays(asked) == IF asked.some THEN asked.val ELSE 5
InWindow(u, asked) ==
    {e \in db : e.user_id = u /\ now <= e.start_at
                  /\ e.start_at <= now + WindowDays(asked)}

\* The step is the upcoming request of user u with the parameter asked.
UpcomingStep(u, asked) ==
    /\ seen'.op = "upcoming" /\ seen'.user = u /\ seen'.asked = asked
    /\ Upcoming(u, asked)

\* The read returned exactly the rows, each once.
ReturnedExactly(rows) ==
    /\ Range(seen'.events) = {ToResponse(e) : e \in rows}
    /\ Len(seen'.events) = Cardinality(rows)

\* C12, as stated: upcoming returns exactly the user's events with
\* now <= start_at <= now + window_days (5 when unspecified), both ends
\* included, and changes no stored event.
C12_UpcomingWindow ==
    [][\A u \in Users, asked \in QueryDays :
          UpcomingStep(u, asked) =>
              /\ ReturnedExactly(InWindow(u, asked))
              /\ db' = db]_vars

\* What upcoming does do: exactly the window whenever now + window_days is a
\* datetime; when it is beyond the largest datetime the request fails,
\* success=False with no events.  No stored event changes either way.
UpcomingWindowInRange ==
    [][\A u \in Users, asked \in QueryDays :
          UpcomingStep(u, asked) =>
              /\ now + WindowDays(asked) <= DateTimeMax =>
                    seen'.success /\ ReturnedExactly(InWindow(u, asked))
              /\ now + WindowDays(asked) > DateTimeMax =>
                    ~ seen'.success /\ seen'.events = <<>>
              /\ db' = db]_vars

\* An upcoming request has returned an event that starts exactly at the end
\* of its window and left out an event of another user.
UpcomingWindowBoundary ==
    /\ seen.op = "upcoming" /\ seen.success
    /\ seen.asked.some /\ seen.asked.val > 0
    /\ \E i \in DOMAIN seen.events :
          Instant(seen.events[i].start_at) = seen.now + seen.asked.val
    /\ \E e \in db : e.user_id # seen.user
    /\ \A i \in DOMAIN seen.events : seen.events[i].user_id = seen.user

\* C13, as stated: the events upcoming returns are in strictly ascending
\* start_at.
C13_UpcomingStrictlyAscending ==
    [][\A u \in Users, asked \in QueryDays :
          UpcomingStep(u, asked) =>
              \A i \in 1..(Len(seen'.events) - 1) :
                  Instant(seen'.events[i].start_at)
                    < Instant(seen'.events[i + 1].start_at)]_vars

\* C13, amended: the events upcoming returns are in ascending start_at,
\* events with the same start_at next to each other in either order.
C13_UpcomingAscending ==
    [][\A u \in Users, asked \in QueryDays :
          UpcomingStep(u, asked) =>
              \A i \in 1..(Len(seen'.events) - 1) :
                  Instant(seen'.events[i].start_at)
                    <= Instant(seen'.events[i + 1].start_at)]_vars

\* An upcoming request has returned two events, the earlier one first.
C13_Witness ==
    /\ seen.op = "upcoming" /\ seen.success
    /\ Len(seen.events) = 2
    /\ Instant(seen.events[1].start_at) < Instant(seen.events[2].start_at)

\* C10, as stated: when a cleanup commits and the request that committed for
\* the user before it was a cleanup too, it removes no event and leaves the
\* user's events as they are.
C10_SecondCleanupRemovesNothing ==
    [][\A s \in Sessions :
          CleanupSucceeds(s) /\ lastOp[user[s]].op = "cleanup" =>
              /\ txDel[s] = {}
              /\ Owned(user[s])' = Owned(user[s])]_vars

\* C10, amended: the second of two cleanups in succession removes exactly
\* the events that end at or after the clock the first one read and before
\* the clock it reads itself; it removes none when the clock has not moved.
C10_SecondCleanupRemovesElapsed ==
    [][\A s \in Sessions :
          CleanupSucceeds(s) /\ lastOp[user[s]].op = "cleanup" =>
              /\ txDel[s] = Ids({e \in Owned(user[s]) :
                                   lastOp[user[s]].now <= e.end_at /\ e.end_at < cnow[s]})
              /\ Owned(user[s])' = {e \in Owned(user[s]) : e.id \notin txDel[s]}
              /\ (cnow[s] = lastOp[user[s]].now => Owned(user[s])' = Owned(user[s]))]_vars

\* Two cleanups in succession: the second one, at a later clock, has removed
\* an event the first one had kept.
C10_Witness ==
    \E s \in Sessions :
        /\ pc[s] = "done" /\ kind[s] = "auto_sync" /\ resp[s].success
        /\ lastOp[user[s]].op = "cleanup"
        /\ lastOp[user[s]].before.op = "cleanup"
        /\ lastOp[user[s]].before.now < lastOp[user[s]].now
        /\ lastOp[user[s]].now = cnow[s]
        /\ \E e \in prior[s] : e \notin Owned(user[s])

(***************************************************************************)
(* The properties of the context engine.                                   *)
(***************************************************************************)
Decisions == {"notify", "monitor", "no_action", "error"}

\* The snapshot lists at least one calendar event.
HasCalendarEvents(snapshot) ==
    snapshot.calendar_events.some /\ snapshot.calendar_events.val # <<>>

\* The engine decides the request in ctx.
Decides(trigger) == ContextEngine /\ ctx.trigger = trigger

\* The outcome is no_action without a notification.
IsNoAction(r) == r.decision = "no_action" /\ ~ r.notification.some

\* C14. location_change with a non-empty calendar_events: notify, priority
\* normal, the body referring to the title of the first element as supplied,
\* whatever the other fields of the snapshot are.
C14_LocationChangeNotifies ==
    [][Decides("location_change") /\ HasCalendarEvents(ctx.snapshot) =>
          /\ ctx'.response.decision = "notify"
          /\ ctx'.response.notification.some
          /\ ctx'.response.notification.priority = "normal"
          /\ ctx'.response.notification.body.arg
                = ctx.snapshot.calendar_events.val[1].title]_vars

\* location_change was decided for a snapshot whose second event starts
\* before the first and has another title, with motion and health present.
C14_Witness ==
    /\ ctx.pc = "done" /\ ctx.trigger = "location_change"
    /\ ctx.response.decision = "notify"
    /\ Len(ctx.snapshot.calendar_events.val) = 2
    /\ ctx.snapshot.calendar_events.val[2].start < ctx.snapshot.calendar_events.val[1].start
    /\ ctx.snapshot.calendar_events.val[2].title # ctx.snapshot.calendar_events.val[1].title
    /\ ctx.response.notification.body.arg = ctx.snapshot.calendar_events.val[1].title
    /\ ctx.snapshot.motion.some /\ ctx.snapshot.health.some

\* C15. time_based with a non-empty calendar_events: notify, priority high,
\* referring to the title of the first element, whatever its start time.
C15_TimeBasedNotifies ==
    [][Decides("time_based") /\ HasCalendarEvents(ctx.snapshot) =>
          /\ ctx'.response.decision = "notify"
          /\ ctx'.response.notification.some
          /\ ctx'.response.notification.priority = "high"
          /\ ctx'.response.notification.body.arg
                = ctx.snapshot.calendar_events.val[1].title]_vars

\* time_based was decided for an event that does not start now.
C15_Witness ==
    /\ ctx.pc = "done" /\ ctx.trigger = "time_based"
    /\ ctx.response.decision = "notify"
    /\ ctx.response.notification.priority = "high"
    /\ ctx.snapshot.calendar_events.val # <<>>
    /\ ctx.snapshot.calendar_events.val[1].start > now

\* C16, as stated: activity_change with motion.activity_type present:
\* monitor and no notification.
C16_ActivityPresentMonitors ==
    [][Decides("activity_change") /\ ctx.snapshot.motion.some
         /\ ctx.snapshot.motion.activity_type.some =>
          /\ ctx'.response.decision = "monitor"
          /\ ~ ctx'.response.notification.some]_vars

\* C16, amended: activity_change with a motion.activity_type that is present
\* and not the empty string: monitor and no notification, also when the
\* snapshot carries calendar events or health data.
C16_ActivityNonEmptyMonitors ==
    [][Decides("activity_change") /\ ctx.snapshot.motion.some
         /\ ctx.snapshot.motion.activity_type.some
         /\ ctx.snapshot.motion.activity_type.val # "" =>
          /\ ctx'.response.decision = "monitor"
          /\ ~ ctx'.response.notification.some]_vars

\* activity_change was decided for a snapshot with an activity type,
\* calendar events and health data.
C16_Witness ==
    /\ ctx.pc = "done" /\ ctx.trigger = "activity_change"
    /\ ctx.response.decision = "monitor"
    /\ ~ ctx.response.notification.some
    /\ ctx.snapshot.motion.activity_type.val = "running"
    /\ HasCalendarEvents(ctx.snapshot)
    /\ ctx.snapshot.health.some

\* C17. health_alert with health present: notify, priority high, whatever
\* the health fields hold, absent values included.
C17_HealthAlertNotifies ==
    [][Decides("health_alert") /\ ctx.snapshot.health.some =>
          /\ ctx'.response.decision = "notify"
          /\ ctx'.response.notification.some
          /\ ctx'.response.notification.priority = "high"]_vars

\* health_alert was decided for health data without a heart rate.
C17_Witness ==
    /\ ctx.pc = "done" /\ ctx.trigger = "health_alert"
    /\ ctx.response.decision = "notify"
    /\ ctx.response.notification.priority = "high"
    /\ ctx.snapshot.health.some
    /\ ~ ctx.snapshot.health.heart_rate.some

RecognizedTriggers ==
    {"location_change", "time_based", "activity_change", "health_alert"}

\* C18. Any other trigger string, any snapshot: no_action, no notification,
\* and a reasoning that names the trigger.
C18_UnknownTriggerNoAction ==
    [][ContextEngine /\ ctx.trigger \notin RecognizedTriggers =>
          /\ IsNoAction(ctx'.response)
          /\ ctx'.response.reasoning.some
          /\ ctx'.response.reasoning.arg = ctx.trigger]_vars

\* A trigger that differs from a recognized one by case only was decided,
\* for a snapshot that has everything.
C18_Witness ==
    /\ ctx.pc = "done" /\ ctx.trigger = "Location_Change"
    /\ IsNoAction(ctx.response)
    /\ ctx.response.reasoning.arg = "Location_Change"
    /\ HasCalendarEvents(ctx.snapshot)
    /\ ctx.snapshot.motion.activity_type.val = "running"
    /\ ctx.snapshot.health.some

\* The precondition of a recognized trigger's rule fails.
PreconditionFails(trigger, snapshot) ==
    \/ trigger \in {"location_change", "time_based"} /\ ~ HasCalendarEvents(snapshot)
    \/ trigger = "activity_change"
          /\ (~ snapshot.motion.some \/ ~ snapshot.motion.activity_type.some)
    \/ trigger = "health_alert" /\ ~ snapshot.health.some

\* C19. Fail-soft: a recognized trigger whose precondition fails is answered
\* by no_action with no notification, and no error.
C19_FailSoft ==
    [][ContextEngine /\ PreconditionFails(ctx.trigger, ctx.snapshot) =>
          /\ ctx'.status = "sent"
          /\ IsNoAction(ctx'.response)]_vars

\* activity_change was decided for a motion without an activity type.
C19_Witness ==
    /\ ctx.pc = "done" /\ ctx.status = "sent"
    /\ ctx.trigger = "activity_change"
    /\ ctx.snapshot.motion.some /\ ~ ctx.snapshot.motion.activity_type.some
    /\ IsNoAction(ctx.response)

\* C20. Every request ends with a well-formed outcome: an error raised by
\* the processing is answered by decision error, the error detail as the
\* reasoning and no notification, and does not reach the caller.
C20_BoundaryCatches ==
    [][/\ \A e \in Errors :
             ctx.pc = "received" /\ ContextEngineFails(e) =>
                 /\ ctx'.response.decision = "error"
                 /\ ctx'.response.reasoning.some
                 /\ ctx'.response.reasoning.arg = e
                 /\ ~ ctx'.response.notification.some
       /\ ctx'.pc = "done" =>
             /\ ctx'.status = "sent"
             /\ ctx'.response.decision \in Decisions
             /\ (ctx'.response.notification.some => ctx'.response.decision = "notify")]_vars

\* A request whose processing raised has its error outcome.
C20_Witness ==
    /\ ctx.pc = "done" /\ ctx.status = "sent"
    /\ ctx.response.decision = "error"
    /\ ctx.response.reasoning.arg \in Errors
    /\ ctx.trigger = "location_change" /\ HasCalendarEvents(ctx.snapshot)

\* C21. Every outcome a caller receives, whatever the trigger and the
\* snapshot, has a decision among notify, monitor, no_action and error, and
\* carries a notification payload exactly when the decision is notify.
C21_OutcomeWellFormed ==
    ctx.status = "sent" =>
        /\ ctx.response.decision \in Decisions
        /\ ctx.response.notification.some <=> ctx.response.decision = "notify"

\* The engine has answered a location_change request by notify with its
\* payload.
C21_Witness ==
    /\ ctx.pc = "done" /\ ctx.status = "sent"
    /\ ctx.trigger = "location_change"
    /\ ctx.response.decision = "notify"
    /\ ctx.response.notification.some
    /\ ctx.response.notification.priority = "normal"

\* C22. Two invocations of the engine with the same trigger and the same
\* snapshot return the same outcome, whoever asks, whatever was asked
\* before and whatever the event store holds, and an invocation changes no
\* stored event, no open transaction and nothing the store's requests keep.
C22_Deterministic ==
    [][ContextEngine =>
          /\ decided.some /\ decided.trigger = ctx.trigger
                /\ decided.snapshot = ctx.snapshot
                => ctx'.response = decided.response
          /\ UNCHANGED <<db, txDel, txIns, targets, pc, resp>>]_vars

\* The engine has notified a user over a store that holds an event, as it
\* had notified the other user for the same trigger and snapshot over the
\* empty store.
C22_Witness ==
    /\ ctx.pc = "done" /\ decided.some
    /\ decided.trigger = ctx.trigger /\ decided.snapshot = ctx.snapshot
    /\ decided.user # ctx.user
    /\ decided.empty /\ Owned(ctx.user) # {}
    /\ ctx.response.decision = "notify"

\* C24. A storage error during a sync or a cleanup ends the request with the
\* failure response, success=False, the error as the message and (sync)
\* synced_count 0, and nothing committed; the request is not run again:
\* once answered, its session executes no further statement.
C24_StorageErrorOnce ==
    [][\A s \in Sessions :
          /\ StorageError(s) =>
                /\ resp'[s].status = "sent"
                /\ ~ resp'[s].success
                /\ resp'[s].message = "StorageError"
                /\ resp'[s].synced_count = 0
                /\ pc'[s] = "done"
                /\ db' = db
          /\ pc[s] = "done" =>
                /\ pc'[s] \in {"done", "idle"}
                /\ txDel'[s] = txDel[s] /\ txIns'[s] = txIns[s]]_vars

\* A sync that had inserted an event over the user's earlier one was
\* answered by the failure response of a storage error.
C24_Witness ==
    \E s \in Sessions :
        /\ pc[s] = "done" /\ kind[s] = "sync"
        /\ resp[s] = FailureResp("StorageError")
        /\ batch[s] # <<>> /\ prior[s] # {}
        /\ Owned(user[s]) = prior[s]

(***************************************************************************)
(* The properties of the id-scoped methods.                                *)
(***************************************************************************)

\* The caller got the not-found outcome: None, which no call that finds its
\* event returns.
NotFound(result) == result.outcome = "none"

\* C23. get_by_id, get_by_source_id and update_event_state answer a
\* reference to an event that does not exist by the not-found outcome, and
\* only such a reference; update_event_state then writes nothing.
C23_NotFoundSurfaces ==
    [][/\ \A event_id \in 1..MaxId :
             GetById(event_id) =>
                 (NotFound(found'.result) <=> event_id \notin Ids(db))
       /\ \A u \in Users, source_event_id \in SourceIds :
             GetBySourceId(u, source_event_id) =>
                 (NotFound(found'.result) <=>
                     ~ \E e \in Owned(u) : e.source_event_id = source_event_id)
       /\ \A s \in Sessions, event_id \in 1..MaxId, state \in UpdateStates :
             UpdateEventState(s, event_id, state) =>
                 /\ NotFound(found'.result) <=> event_id \notin Ids(db)
                 /\ NotFound(found'.result) => txDel'[s] = {} /\ txIns'[s] = <<>>]_vars

\* update_event_state was called with the identity of no event while the
\* store held an event, and returned None.
C23_Witness ==
    /\ found.op = "update_event_state"
    /\ NotFound(found.result)
    /\ db # {} /\ found.id \notin Ids(db)
    /\ \E s \in Sessions : pc[s] = "updated"

\* The row of an identity.
RowOf(rows, id) == CHOOSE e \in rows : e.id = id

\* The step commits an update_event_state that wrote the row id.
UpdateOf(id) == \E s \in Sessions : UpdateCommit(s) /\ id \in txDel[s]

\* C26, as stated: an event that stays stored keeps all its fields in every
\* step but the commit of an update_event_state of it, which changes its
\* state to the one asked for and nothing else of it; no step that changes
\* an event in place adds or removes an event.
C26_OnlyStateChanges ==
    [][\A id \in Ids(db) \cap Ids(db') :
          /\ WithState(RowOf(db', id), RowOf(db, id).state) = RowOf(db, id)
          /\ updatedAt'[id] = updatedAt[id]
          /\ RowOf(db', id) # RowOf(db, id) =>
                /\ UpdateOf(id)
                /\ Ids(db') = Ids(db)
                /\ \A s \in Sessions :
                      pc[s] = "updated" => RowOf(db', id) = txIns[s][1]]_vars

\* C26, amended: the same, except that the commit of an update_event_state
\* that changes the state of an event also sets its updated_at; nothing
\* else changes updated_at of an event that stays stored.
C26_OnlyStateAndStamp ==
    [][\A id \in Ids(db) \cap Ids(db') :
          /\ WithState(RowOf(db', id), RowOf(db, id).state) = RowOf(db, id)
          /\ updatedAt'[id] # updatedAt[id] =>
                UpdateOf(id) /\ RowOf(db', id) # RowOf(db, id)
          /\ RowOf(db', id) # RowOf(db, id) =>
                /\ UpdateOf(id)
                /\ Ids(db') = Ids(db)
                /\ \A s \in Sessions :
                      pc[s] = "updated" => RowOf(db', id) = txIns[s][1]]_vars

\* An update_event_state of one of two stored events has committed: the
\* event has the new state and a later updated_at, the other event has
\* neither.
C26_Witness ==
    \E s \in Sessions :
        /\ pc[s] = "done" /\ kind[s] = "update"
        /\ \E e1, e2 \in db :
              /\ e1.state = "done" /\ updatedAt[e1.id] = 1
              /\ e2.state = "pending" /\ updatedAt[e2.id] = 0

\* C27. Every stored event has start_at <= end_at: an event that ends before
\* it starts is turned down by sync and create, and never stored.
C27_StartNotAfterEnd ==
    \A e \in db : e.start_at <= e.end_at

\* The step in which session t commits, the second of a sync s and a
\* cleanup c of one user that ran next to each other and both committed.
PairCommits(t, s, c) ==
    /\ {s, c} = Sessions /\ t \in {s, c}
    /\ kind[s] = "sync" /\ kind[c] = "auto_sync" /\ user[s] = user[c]
    /\ ~ alone[s] /\ ~ alone[c]
    /\ SyncSucceeds(t) \/ CleanupSucceeds(t)
    /\ \A o \in {s, c} \ {t} : pc[o] = "done" /\ resp[o].success

\* The number of rows, and of elements of a batch, with the tuple x.
RowCount(rows, x) == Cardinality({e \in rows : RowTuple(e) = x})
InputCount(b, x) == Cardinality({i \in DOMAIN b : InputTuple(b[i]) = x})

\* C29. When a cleanup and a sync of batch B of one user run next to each
\* other and both commit, in either order, the user's events are then
\* events of B only, none that the user had before the sync, and every
\* event of B with end_at >= the clock the cleanup read is among them.
C29_CleanupBesideSync ==
    [][\A t, s, c \in Sessions :
          PairCommits(t, s, c) =>
              /\ Ids(Owned(user[s])') \cap Ids(prior[s]) = {}
              /\ \A x \in {RowTuple(e) : e \in Owned(user[s])'} :
                    RowCount(Owned(user[s])', x) <= InputCount(batch[s], x)
              /\ \A i \in DOMAIN batch[s] :
                    Instant(batch[s][i].end_at) >= cnow[c] =>
                        RowCount(Owned(user[s])', InputTuple(batch[s][i]))
                          = InputCount(batch[s], InputTuple(batch[s][i]))]_vars

\* A sync and a cleanup of a user who had an expired event have run next to
\* each other, the DELETE of the one waiting for the other, and both have
\* committed: the user has the one event of the batch, which ends at the
\* clock the cleanup read.
C29_Witness ==
    \E s, c \in Sessions :
        /\ kind[s] = "sync" /\ kind[c] = "auto_sync" /\ user[s] = user[c]
        /\ pc[s] = "done" /\ pc[c] = "done"
        /\ resp[s].success /\ resp[c].success
        /\ ~ alone[s] /\ ~ alone[c]
        /\ \E e \in prior[s] : e.end_at < cnow[c]
        /\ prior[c] = prior[s]
        /\ Len(batch[s]) = 1 /\ Instant(batch[s][1].end_at) = cnow[c]
        /\ SameMultiset(Owned(user[s]), batch[s])
        /\ Ids(Owned(user[s])) \cap Ids(prior[s]) = {}

\* C25. In every state of the event store no two stored events of one user
\* have the same source_event_id, so a lookup by (user_id, source_event_id)
\* matches at most one event.
C25_SourceIdUnique ==
    \A e1, e2 \in db :
        e1.user_id = e2.user_id /\ e1.source_event_id = e2.source_event_id
            => e1 = e2

\* No two rows of the users table have one apple_id.
AppleIdUnique ==
    \A u1, u2 \in userTable :
        u1.apple_id.some /\ u1.apple_id = u2.apple_id => u1 = u2

\* The request of caller c ends in this step.
Ends(c) == ureq[c].pc # "done" /\ ureq'[c].pc = "done"

\* C28. In every state of the users table no two users share an apple_id;
\* a create_apple_user or link_apple_account whose apple_id is registered
\* when it ends, two interleaved calls included, ends with AlreadyExists and
\* leaves the table as it is; and a create_apple_user that succeeds adds
\* exactly one user, with that apple_id, no password hash and is_active true.
C28_AppleIdRegisteredOnce ==
    [][\A c \in Sessions :
         /\ AppleIdUnique'
         /\ Ends(c) /\ ureq[c].op \in {"create_apple_user", "link_apple_account"}
              /\ ByAppleId(ureq[c].apple_id) # {}
              => ureq'[c].result = "AlreadyExists" /\ userTable' = userTable
         /\ Ends(c) /\ ureq[c].op = "create_apple_user" /\ ureq'[c].result = "ok"
              => \E new \in userTable' :
                    /\ new \notin userTable
                    /\ userTable' = userTable \cup {new}
                    /\ new.apple_id = Some(ureq[c].apple_id)
                    /\ ~ new.hashed_password.some
                    /\ new.is_active]_vars

\* C30. An Apple login that ended with UnauthorizedException, for a code
\* that is not valid or for a disabled user, has issued no tokens and has
\* committed nothing to the users table.
C30_RejectedLoginWritesNothing ==
    \A c \in Sessions :
        ureq[c].pc = "done" /\ ureq[c].op = "login" /\ ureq[c].result = "Unauthorized"
            => ~ ureq[c].tokens /\ ~ ureq[c].wrote

====
